---- MODULE Spec2Model ----
(***************************************************************************)
(* One invocation of function_handler (src/src/http_handler.rs): the API   *)
(* key gate, the method switch, recipient resolution (Supabase on GET, the *)
(* JSON payload on POST), the message build and the Expo send, with the    *)
(* Result the handler returns.                                             *)
(*                                                                         *)
(* Environment: API_KEY and EXPO_ACCESS_TOKEN are set (the two expect()    *)
(* calls at lines 79 and 98 abort the process otherwise, before any        *)
(* outcome exists).  Whether API_KEY is a legal header value, whether the  *)
(* Supabase client can be constructed, what the users table holds and what *)
(* the Expo library answers are all chosen by the environment.             *)
(***************************************************************************)
EXTENDS Integers, Sequences, FiniteSets, TLC

VARIABLES
    pc,                \* position of the handler in its body
    api_key_env,       \* value of the API_KEY environment variable (characters)
    event,             \* the incoming Request: method, x-api-key header, body
    title,             \* local `title`
    body,              \* local `body`
    expo_push_tokens,  \* local `expo_push_tokens`
    json_body,         \* local `json_body` of the POST arm
    result,            \* what function_handler returns (none while running)
    builder_arg,       \* arguments the message builder was invoked with
    rows_returned,     \* rows the users query returned, as Some/None
    send_error,        \* Err value of send_push_notifications, as Some/None
    checks,            \* payload fields examined so far, in order
    calls              \* collaborator and library calls made so far, in order

vars == <<pc, api_key_env, event, title, body, expo_push_tokens, json_body,
          result, builder_arg, rows_returned, send_error, checks, calls>>

-----------------------------------------------------------------------------
(* Bounds *)

MaxRows == 3

-----------------------------------------------------------------------------
(* Option values: None is the empty sequence, Some(x) a singleton. *)

None == <<>>
Some(x) == <<x>>

(* serde_json::Value, as far as the handler looks at it. *)
JNull == [t |-> "null", s |-> ""]
JNumber == [t |-> "number", s |-> ""]
JString(x) == [t |-> "string", s |-> x]

\* Value::as_str: Some for a JSON string, None for every other value.
as_str(v) == IF v.t = "string" THEN Some(v.s) ELSE None

\* Index<&str> for Value: the member of an object, Null when the key is
\* absent or the value is not an object.
Index(v, key) ==
    IF v.t = "object" /\ key \in DOMAIN v.members THEN v.members[key] ELSE JNull

\* Expo::is_expo_push_token, the format predicate of the push library.
ValidPushTokens == {"ExponentPushToken[aaa]", "ExpoPushToken[bbb]"}
InvalidPushTokens == {"not-a-token"}
PushTokenStrings == ValidPushTokens \cup InvalidPushTokens

is_expo_push_token_always(token) == TRUE

is_expo_push_token(token) == token \in ValidPushTokens

-----------------------------------------------------------------------------
(* HTTP status codes and the responses the handler builds. *)

FORBIDDEN == 403
BAD_REQUEST == 400
METHOD_NOT_ALLOWED == 405
OK == 200
INTERNAL_SERVER_ERROR == 500

NoResult == [kind |-> "none", status |-> 0, content_type |-> "", body |-> ""]

\* Ok(Response) without a Content-Type header.
PlainResponse(status, text) ==
    [kind |-> "response", status |-> status, content_type |-> "", body |-> text]

\* json!({key: value}).to_string()
JsonToString(key, value) == "{\"" \o key \o "\":\"" \o value \o "\"}"

\* Ok(Response) with Content-Type: application/json and a one-member object.
JsonResponse(status, key, value) ==
    [kind |-> "response", status |-> status,
     content_type |-> "application/json", body |-> JsonToString(key, value)]

\* Err(Error): the handler returns no response at all.
ErrorResult(message) ==
    [kind |-> "error", status |-> 0, content_type |-> "", body |-> message]

DEFAULT_TITLE == "25-nichi dayo"
DEFAULT_BODY == "partner ni seikyuu shiyou"

-----------------------------------------------------------------------------
(* The environment's inputs. *)

\* API_KEY values: one that HeaderValue::from_str accepts, one it rejects
\* (a trailing line feed).
ApiKeyEnvValues == {<<"k", "1">>, <<"k", "1", "\n">>}

\* HeaderValue::from_str: every character is visible ASCII, a space or a tab.
ControlChars == {"\n", "\r"}
HeaderValue_from_str(chars) ==
    IF \E i \in 1..Len(chars) : chars[i] \in ControlChars THEN None ELSE Some(chars)

\* x-api-key as received: absent, or some legal header value.
ClientKeys == {None, Some(<<"k", "1">>), Some(<<"k", "2">>)}

Methods == {"GET", "POST", "PUT", "DELETE"}

TitleValues == {None, Some(JNumber), Some(JString("T"))}
BodyValues == {None, Some(JNull), Some(JString("B"))}
TokenValues == {None, Some(JNumber)} \cup {Some(JString(k)) : k \in PushTokenStrings}

\* A JSON object holding the members that are present.
Object(t, b, k) ==
    LET present == {x \in {"title", "body", "expo_push_token"} :
                        \/ x = "title" /\ t # None
                        \/ x = "body" /\ b # None
                        \/ x = "expo_push_token" /\ k # None}
    IN [t |-> "object",
        members |-> [x \in present |->
                        IF x = "title" THEN t[1] ELSE IF x = "body" THEN b[1] ELSE k[1]]]

JsonValues ==
    {[t |-> "array", s |-> ""]}
        \cup {Object(t, b, k) : t \in TitleValues, b \in BodyValues, k \in TokenValues}

\* Body text: a JSON document or text that is no JSON.
Texts == {[syntax |-> "garbage", value |-> JNull]}
            \cup {[syntax |-> "json", value |-> v] : v \in JsonValues}

\* lambda_http::Body: Empty, Text(s), Binary(bytes); utf8 tells whether the
\* bytes decode.
NoText == [syntax |-> "garbage", value |-> JNull]
Bodies ==
    {[kind |-> "Empty", utf8 |-> TRUE, text |-> NoText],
     [kind |-> "Binary", utf8 |-> FALSE, text |-> NoText]}
        \cup {[kind |-> k, utf8 |-> TRUE, text |-> x] : k \in {"Text", "Binary"}, x \in Texts}

Events == [method : Methods, api_key : ClientKeys, body : Bodies]

\* Rows of the users table: the expo_push_token column is null, a number or
\* a string.
RowTokenValues == {JNull, JNumber, JString("ExponentPushToken[aaa]"), JString("not-a-token")}
Rows == [expo_push_token : RowTokenValues]
RowLists == UNION {[1..n -> Rows] : n \in 0..MaxRows}

\* Failure reasons of the push transport.
SendErrors == {"connection reset by peer", "expo: 429 too many requests"}

-----------------------------------------------------------------------------
(* Helpers of the handler. *)

\* The x-api-key header equals the expected HeaderValue (line 85).
KeyMatches_AnyKey(client_key, expected_key_value) == client_key # None

KeyMatches(client_key, expected_key_value) == client_key = Some(expected_key_value)

\* filter_map(|row| row["expo_push_token"].as_str()) of fetch_expo_push_tokens.
RECURSIVE filter_map_tokens_reversed(_)
filter_map_tokens_reversed(rows) ==
    IF rows = <<>> THEN <<>>
    ELSE filter_map_tokens_reversed(Tail(rows)) \o as_str(Head(rows).expo_push_token)

RECURSIVE filter_map_tokens(_)
filter_map_tokens(rows) ==
    IF rows = <<>> THEN <<>>
    ELSE as_str(Head(rows).expo_push_token) \o filter_map_tokens(Tail(rows))

\* The handler is over: it has returned Ok(response) or Err(error).
Returned == result.kind # "none"

Return(r) ==
    /\ result' = r
    /\ pc' = "returned"

Call(name) == calls' = Append(calls, name)

-----------------------------------------------------------------------------
(* Initial state: the handler is entered with some request. *)

Init ==
    /\ pc = "auth"
    /\ api_key_env \in ApiKeyEnvValues
    /\ event \in Events
    /\ title = ""
    /\ body = ""
    /\ expo_push_tokens = <<>>
    /\ json_body = JNull
    /\ result = NoResult
    /\ builder_arg = None
    /\ rows_returned = None
    /\ send_error = None
    /\ checks = <<>>
    /\ calls = <<>>

-----------------------------------------------------------------------------
(* The handler, step by step. *)

\* Lines 79-103: the expected key is turned into a HeaderValue, compared
\* with x-api-key, and on a match the Expo client and the locals are set up.
AuthGate ==
    /\ pc = "auth"
    /\ LET expected_key_value == HeaderValue_from_str(api_key_env)
       IN IF expected_key_value = None
          THEN /\ Return(ErrorResult("Invalid API_KEY environment variable"))
               /\ UNCHANGED <<title, body, expo_push_tokens>>
          ELSE IF ~KeyMatches(event.api_key, expected_key_value[1])
          THEN /\ Return(PlainResponse(FORBIDDEN, "Forbidden: Invalid API Key"))
               /\ UNCHANGED <<title, body, expo_push_tokens>>
          ELSE /\ pc' = "method"
               /\ title' = DEFAULT_TITLE
               /\ body' = DEFAULT_BODY
               /\ expo_push_tokens' = <<>>
               /\ UNCHANGED result
    /\ UNCHANGED <<api_key_env, event, json_body, builder_arg, rows_returned,
                   send_error, checks, calls>>

\* Lines 105, 106, 110, 177-188: match event.method().as_str().
MethodSwitch_OtherAsGet ==
    /\ pc = "method"
    /\ IF event.method = "POST"
       THEN pc' = "extract_body" /\ UNCHANGED result
       ELSE pc' = "init_supabase" /\ UNCHANGED result
    /\ UNCHANGED <<api_key_env, event, title, body, expo_push_tokens, json_body,
                   builder_arg, rows_returned, send_error, checks, calls>>

MethodSwitch ==
    /\ pc = "method"
    /\ IF event.method = "GET"
       THEN pc' = "init_supabase" /\ UNCHANGED result
       ELSE IF event.method = "POST"
       THEN pc' = "extract_body" /\ UNCHANGED result
       ELSE Return(JsonResponse(METHOD_NOT_ALLOWED, "error", "Method not allowed"))
    /\ UNCHANGED <<api_key_env, event, title, body, expo_push_tokens, json_body,
                   builder_arg, rows_returned, send_error, checks, calls>>

\* Lines 25-42, called at line 107: the client is built from SUPABASE_URL and
\* SUPABASE_KEY; a missing variable or a failing constructor is
\* SupabaseError::Initialization.
InitializeSupabaseClient ==
    /\ pc = "init_supabase"
    /\ Call("initialize_supabase_client")
    /\ \E ok \in BOOLEAN :
          IF ok
          THEN pc' = "fetch" /\ UNCHANGED result
          ELSE Return(ErrorResult("Failed to initialize SupabaseClient"))
    /\ UNCHANGED <<api_key_env, event, title, body, expo_push_tokens, json_body,
                   builder_arg, rows_returned, send_error, checks>>

\* Lines 44-56, called at line 108: select("users"), then the token column
\* of the rows; a failing query is SupabaseError::FetchTokens.
FetchExpoPushTokens_Retry ==
    /\ pc = "fetch"
    /\ Call("select_users")
    /\ \/ /\ pc' = IF Len(calls) < 3 THEN "fetch" ELSE "returned"
          /\ result' = IF Len(calls) < 3 THEN result
                        ELSE ErrorResult("Failed to fetch tokens from Supabase")
          /\ UNCHANGED <<rows_returned, expo_push_tokens>>
       \/ \E rows \in RowLists :
             /\ rows_returned' = Some(rows)
             /\ expo_push_tokens' = filter_map_tokens(rows)
             /\ pc' = "build"
             /\ UNCHANGED result
    /\ UNCHANGED <<api_key_env, event, title, body, json_body, builder_arg,
                   send_error, checks>>

FetchExpoPushTokens ==
    /\ pc = "fetch"
    /\ Call("select_users")
    /\ \/ /\ Return(ErrorResult("Failed to fetch tokens from Supabase"))
          /\ UNCHANGED <<rows_returned, expo_push_tokens>>
       \/ \E rows \in RowLists :
             /\ rows_returned' = Some(rows)
             /\ expo_push_tokens' = filter_map_tokens(rows)
             /\ pc' = "build"
             /\ UNCHANGED result
    /\ UNCHANGED <<api_key_env, event, title, body, json_body, builder_arg,
                   send_error, checks>>

\* Lines 58-76, called at line 111: the body as a string, then as JSON; every
\* failure is returned as Err and leaves the handler through `?`.
ExtractBody ==
    /\ pc = "extract_body"
    /\ IF event.body.kind = "Empty"
       THEN /\ Return(ErrorResult("Unsupported body type"))
            /\ UNCHANGED <<json_body, calls>>
       ELSE IF event.body.kind = "Binary" /\ ~event.body.utf8
       THEN /\ Return(ErrorResult("invalid utf-8 sequence"))
            /\ Call("String::from_utf8")
            /\ UNCHANGED json_body
       ELSE /\ calls' = calls \o (IF event.body.kind = "Binary"
                                  THEN <<"String::from_utf8">> ELSE <<>>)
                              \o <<"serde_json::from_str">>
            /\ IF event.body.text.syntax = "json"
               THEN /\ json_body' = event.body.text.value
                    /\ pc' = "title"
                    /\ UNCHANGED result
               ELSE /\ Return(ErrorResult("expected value at line 1 column 1"))
                    /\ UNCHANGED json_body
    /\ UNCHANGED <<api_key_env, event, title, body, expo_push_tokens, builder_arg,
                   rows_returned, send_error, checks>>

\* Lines 113-127.
CheckTitle ==
    /\ pc = "title"
    /\ checks' = Append(checks, "title")
    /\ LET t == as_str(Index(json_body, "title"))
       IN IF t # None
          THEN title' = t[1] /\ pc' = "body" /\ UNCHANGED result
          ELSE Return(JsonResponse(BAD_REQUEST, "error", "Title is required"))
                 /\ UNCHANGED title
    /\ UNCHANGED <<api_key_env, event, body, expo_push_tokens, json_body,
                   builder_arg, rows_returned, send_error, calls>>

\* Lines 129-143.
CheckBody_Continue ==
    /\ pc = "body"
    /\ checks' = Append(checks, "body")
    /\ LET b == as_str(Index(json_body, "body"))
       IN /\ body' = IF b # None THEN b[1] ELSE body
          /\ pc' = "token"
          /\ UNCHANGED result
    /\ UNCHANGED <<api_key_env, event, title, expo_push_tokens, json_body,
                   builder_arg, rows_returned, send_error, calls>>

CheckBody ==
    /\ pc = "body"
    /\ checks' = Append(checks, "body")
    /\ LET b == as_str(Index(json_body, "body"))
       IN IF b # None
          THEN body' = b[1] /\ pc' = "token" /\ UNCHANGED result
          ELSE Return(JsonResponse(BAD_REQUEST, "error", "Body is required"))
                 /\ UNCHANGED body
    /\ UNCHANGED <<api_key_env, event, title, expo_push_tokens, json_body,
                   builder_arg, rows_returned, send_error, calls>>

\* Lines 145-172.
CheckToken ==
    /\ pc = "token"
    /\ checks' = Append(checks, "expo_push_token")
    /\ LET token == as_str(Index(json_body, "expo_push_token"))
       IN IF token # None
          THEN IF is_expo_push_token(token[1])
               THEN /\ expo_push_tokens' = Append(expo_push_tokens, token[1])
                    /\ pc' = "build"
                    /\ UNCHANGED result
               ELSE /\ Return(JsonResponse(BAD_REQUEST, "error", "Invalid expo push token"))
                    /\ UNCHANGED expo_push_tokens
          ELSE /\ Return(JsonResponse(BAD_REQUEST, "error", "expo_push_token is required"))
               /\ UNCHANGED expo_push_tokens
    /\ UNCHANGED <<api_key_env, event, title, body, json_body, builder_arg,
                   rows_returned, send_error, calls>>

\* Lines 191-202: the builder gets the recipients, title, body and the fixed
\* image; whether build() accepts them is the library's decision, and a
\* ValidationError leaves the handler through `?`.
RICH_CONTENT_IMAGE == "https://picsum.photos/200/300"

BuildMessage ==
    /\ pc = "build"
    /\ builder_arg' = Some([to |-> expo_push_tokens, title |-> title, body |-> body,
                            image |-> RICH_CONTENT_IMAGE])
    /\ Call("ExpoPushMessage::build")
    /\ \E ok \in BOOLEAN :
          IF ok
          THEN pc' = "send" /\ UNCHANGED result
          ELSE Return(ErrorResult("ValidationError"))
    /\ UNCHANGED <<api_key_env, event, title, body, expo_push_tokens, json_body,
                   rows_returned, send_error, checks>>

\* Lines 206-228: the response for each outcome of the send.
SendResponse_Propagate(outcome) ==
    IF outcome = None
    THEN JsonResponse(OK, "message", "Push notification sent successfully")
    ELSE ErrorResult(outcome[1])

SendResponse_AlwaysOk(outcome) ==
    JsonResponse(OK, "message", "Push notification sent successfully")

SendResponse(outcome) ==
    IF outcome = None
    THEN JsonResponse(OK, "message", "Push notification sent successfully")
    ELSE JsonResponse(INTERNAL_SERVER_ERROR, "error", "Failed to send push notification")

\* Lines 204-229: expo.send_push_notifications(message).await.
SendPushNotifications ==
    /\ pc = "send"
    /\ Call("send_push_notifications")
    /\ \E outcome \in {None} \cup {Some(e) : e \in SendErrors} :
          /\ send_error' = outcome
          /\ Return(SendResponse(outcome))
    /\ UNCHANGED <<api_key_env, event, title, body, expo_push_tokens, json_body,
                   builder_arg, rows_returned, checks>>

Next ==
    \/ AuthGate
    \/ MethodSwitch
    \/ InitializeSupabaseClient
    \/ FetchExpoPushTokens
    \/ ExtractBody
    \/ CheckTitle
    \/ CheckBody
    \/ CheckToken
    \/ BuildMessage
    \/ SendPushNotifications

Spec == Init /\ [][Next]_vars

-----------------------------------------------------------------------------
(* Vocabulary of the properties, stated over the request and the history. *)

Count(name) == Cardinality({i \in DOMAIN calls : calls[i] = name})

\* API_KEY is usable as a header value.
ApiKeyLegal == \A i \in 1..Len(api_key_env) : api_key_env[i] \notin {"\n", "\r"}

\* x-api-key is missing or differs from API_KEY.
KeyRejected == event.api_key = None \/ event.api_key[1] # api_key_env

Authenticated == ApiKeyLegal /\ ~KeyRejected

DecodableBody == event.body.kind = "Text" \/ (event.body.kind = "Binary" /\ event.body.utf8)

ParsableBody == DecodableBody /\ event.body.text.syntax = "json"

\* The JSON document of the request has a string under `key`.
HasString(key) ==
    LET v == event.body.text.value
    IN v.t = "object" /\ key \in DOMAIN v.members /\ v.members[key].t = "string"

TokenString == event.body.text.value.members["expo_push_token"].s

\* The message of the first failing payload check, "" when all pass.
FirstFailure ==
    IF ~HasString("title") THEN "Title is required"
    ELSE IF ~HasString("body") THEN "Body is required"
    ELSE IF ~HasString("expo_push_token") THEN "expo_push_token is required"
    ELSE IF TokenString \notin ValidPushTokens THEN "Invalid expo push token"
    ELSE ""

\* The checks that run up to and including the first failing one.
ChecksUpTo(message) ==
    IF message = "Title is required" THEN <<"title">>
    ELSE IF message = "Body is required" THEN <<"title", "body">>
    ELSE <<"title", "body", "expo_push_token">>

BadRequestWith(message) ==
    [kind |-> "response", status |-> 400, content_type |-> "application/json",
     body |-> "{\"error\":\"" \o message \o "\"}"]

Collaborators == {"initialize_supabase_client", "select_users",
                  "ExpoPushMessage::build", "send_push_notifications"}

NoCollaboratorCalled == \A i \in DOMAIN calls : calls[i] \notin Collaborators

\* The string tokens of the rows, in row order.
StringTokens(rows) ==
    LET strs == SelectSeq(rows, LAMBDA r : r.expo_push_token.t = "string")
    IN [i \in 1..Len(strs) |-> strs[i].expo_push_token.s]

-----------------------------------------------------------------------------
(* C1 *)

\* C1 as stated: once the key gate has run on a request whose x-api-key is
\* missing or differs from API_KEY, the handler has answered 403 and has
\* called neither the datastore nor the push transport.
C1_Original ==
    (KeyRejected /\ pc # "auth") =>
        /\ result.kind = "response" /\ result.status = 403
        /\ Count("select_users") = 0 /\ Count("send_push_notifications") = 0

\* C1, amended: when API_KEY is a legal header value and x-api-key is missing
\* or differs from it, the handler has answered 403 as soon as the key gate
\* has run; when API_KEY is no legal header value the handler returns an
\* error instead; in both cases, whatever the method and body, no datastore
\* query and no push send is ever made.
C1_ForbiddenWithoutCalls ==
    (KeyRejected /\ pc # "auth") =>
        /\ pc = "returned"
        /\ IF ApiKeyLegal
           THEN result.kind = "response" /\ result.status = 403
           ELSE result.kind = "error"
        /\ Count("initialize_supabase_client") = 0
        /\ Count("select_users") = 0
        /\ Count("send_push_notifications") = 0

C1_Witness ==
    /\ ApiKeyLegal /\ event.api_key = Some(<<"k", "2">>)
    /\ event.method = "POST" /\ ParsableBody /\ FirstFailure = ""
    /\ result.status = 403

-----------------------------------------------------------------------------
(* C2 *)

\* C2: on an authenticated POST whose body parses as JSON and fails some
\* payload check, the checks run in the order title, body, expo_push_token,
\* none runs after the first failing one, the response is 400 with exactly
\* the message of the first failing check, and no collaborator is called.
C2_FirstFailureWins ==
    (Authenticated /\ event.method = "POST" /\ ParsableBody /\ FirstFailure # "") =>
        /\ \E n \in 0..Len(ChecksUpTo(FirstFailure)) :
              checks = SubSeq(ChecksUpTo(FirstFailure), 1, n)
        /\ NoCollaboratorCalled
        /\ builder_arg = None
        /\ Returned => /\ result = BadRequestWith(FirstFailure)
                       /\ checks = ChecksUpTo(FirstFailure)
        /\ (checks = ChecksUpTo(FirstFailure)) => Returned

\* A body failing two checks at once: body is missing and the token is
\* malformed, and the answer names the body.
C2_Witness ==
    /\ Authenticated /\ event.method = "POST" /\ ParsableBody
    /\ HasString("title") /\ ~HasString("body")
    /\ HasString("expo_push_token") /\ TokenString \notin ValidPushTokens
    /\ result.body = "{\"error\":\"Body is required\"}"
    /\ checks = <<"title", "body">>

-----------------------------------------------------------------------------
(* C3 *)

\* Authenticated POST, JSON body whose expo_push_token is a string that
\* fails the format predicate.
MalformedTokenRequest ==
    /\ Authenticated /\ event.method = "POST" /\ ParsableBody
    /\ HasString("expo_push_token") /\ TokenString \notin ValidPushTokens

\* C3 as stated: such a request is answered 400 "Invalid expo push token"
\* whatever title and body are.
C3_Original ==
    (MalformedTokenRequest /\ Returned) =>
        result = BadRequestWith("Invalid expo push token")

\* C3, amended: such a request is answered 400 "Invalid expo push token"
\* when title and body are both strings; when title is not a string the
\* answer is 400 "Title is required", and otherwise when body is not a
\* string it is 400 "Body is required".
C3_InvalidTokenAfterTitleAndBody ==
    (MalformedTokenRequest /\ Returned) =>
        result = BadRequestWith(
                    IF ~HasString("title") THEN "Title is required"
                    ELSE IF ~HasString("body") THEN "Body is required"
                    ELSE "Invalid expo push token")

C3_Witness ==
    /\ MalformedTokenRequest /\ HasString("title") /\ HasString("body")
    /\ result.status = 400
    /\ result.body = "{\"error\":\"Invalid expo push token\"}"

-----------------------------------------------------------------------------
(* C4 *)

\* C4 as stated: a GET with the correct key queries the datastore exactly
\* once, and the builder's recipients are the rows' string tokens in order.
C4_Original ==
    (Authenticated /\ event.method = "GET" /\ Returned) =>
        /\ Count("select_users") = 1
        /\ builder_arg # None =>
              rows_returned # None /\ builder_arg[1].to = StringTokens(rows_returned[1])

\* C4, amended: a GET with the correct key queries the datastore at most
\* once: exactly once when the Supabase client could be constructed, and not
\* at all when its construction failed; and whenever the message builder is
\* invoked, its recipients are the expo_push_token values of the returned
\* rows, rows without a string token skipped, in row order.
C4_RecipientsAreStringTokens ==
    (Authenticated /\ event.method = "GET") =>
        /\ Count("select_users") <= 1
        /\ Count("initialize_supabase_client") <= 1
        /\ Returned =>
              (Count("select_users") = 1
                  <=> result # ErrorResult("Failed to initialize SupabaseClient"))
        /\ pc \in {"build", "send"} => Count("select_users") = 1
        /\ rows_returned # None => expo_push_tokens = StringTokens(rows_returned[1])
        /\ builder_arg # None =>
              /\ rows_returned # None
              /\ builder_arg[1].to = StringTokens(rows_returned[1])

\* Three rows, the middle one without a token: two recipients, in row order.
C4_Witness ==
    /\ Authenticated /\ event.method = "GET"
    /\ rows_returned = Some(<<[expo_push_token |-> JString("not-a-token")],
                              [expo_push_token |-> JNull],
                              [expo_push_token |-> JString("ExponentPushToken[aaa]")]>>)
    /\ builder_arg # None
    /\ builder_arg[1].to = <<"not-a-token", "ExponentPushToken[aaa]">>

-----------------------------------------------------------------------------
(* C5 *)

\* C5: once the push send has been called, the handler has returned a
\* response fixed by the outcome alone: 200 with the success message when
\* the send succeeded, 500 with the generic failure message when it failed,
\* whatever the failure reason, which is not the body; never an error.
C5_SendOutcomeDecides ==
    Count("send_push_notifications") > 0 =>
        /\ Returned
        /\ result \in
              {[kind |-> "response", status |-> 200,
                content_type |-> "application/json",
                body |-> "{\"message\":\"Push notification sent successfully\"}"],
               [kind |-> "response", status |-> 500,
                content_type |-> "application/json",
                body |-> "{\"error\":\"Failed to send push notification\"}"]}
        /\ (result.status = 200) <=> (send_error = None)
        /\ result.body \notin SendErrors

C5_Witness ==
    /\ send_error = Some("connection reset by peer")
    /\ result.status = 500
    /\ event.method = "POST"

-----------------------------------------------------------------------------
(* C6 *)

\* C6: an authenticated request whose method is neither GET nor POST is
\* answered 405 {"error":"Method not allowed"} by the method switch, and the
\* invocation queries no datastore, parses no body, builds no message and
\* sends nothing.
C6_MethodNotAllowed ==
    (Authenticated /\ event.method \notin {"GET", "POST"}) =>
        /\ calls = <<>>
        /\ checks = <<>>
        /\ builder_arg = None
        /\ json_body = JNull
        /\ pc \notin {"auth", "method"} =>
              result = [kind |-> "response", status |-> 405,
                        content_type |-> "application/json",
                        body |-> "{\"error\":\"Method not allowed\"}"]

C6_Witness ==
    /\ Authenticated /\ event.method = "DELETE" /\ ParsableBody /\ FirstFailure = ""
    /\ result.status = 405

-----------------------------------------------------------------------------
(* C7 *)

\* C7 as stated: an authenticated POST whose body is neither text nor
\* decodable binary, or is no JSON, ends with a 400 response, not an error.
C7_Original ==
    (Authenticated /\ event.method = "POST" /\ ~ParsableBody /\ Returned) =>
        result.kind = "response" /\ result.status = 400

-----------------------------------------------------------------------------
(* C8 *)

\* C8 as stated: whenever the message builder is invoked, every recipient
\* has passed the push-token format predicate, on the POST and the GET path.
C8_Original ==
    builder_arg # None =>
        \A i \in DOMAIN builder_arg[1].to : builder_arg[1].to[i] \in ValidPushTokens

-----------------------------------------------------------------------------
(* C9 *)

ErrorBranch ==
    \/ ~ApiKeyLegal
    \/ Authenticated /\ event.method = "GET" /\ builder_arg = None
    \/ Authenticated /\ event.method = "POST" /\ ~ParsableBody
    \/ builder_arg # None /\ Count("send_push_notifications") = 0

-----------------------------------------------------------------------------
(* C10 *)

\* Position of each call in the pipeline.
Rank(name) ==
    IF name \in {"initialize_supabase_client", "String::from_utf8"} THEN 1
    ELSE IF name \in {"select_users", "serde_json::from_str"} THEN 2
    ELSE IF name = "ExpoPushMessage::build" THEN 3
    ELSE 4

C10_State ==
    \* nothing is called before the key gate has passed
    /\ (calls # <<>> \/ checks # <<>>) => Authenticated
    \* calls happen in pipeline order, each at most once
    /\ \A i, j \in DOMAIN calls : i < j => Rank(calls[i]) < Rank(calls[j])
    /\ Count("send_push_notifications") <= 1
    /\ Count("select_users") <= 1
    \* GET resolves through the datastore only, POST through the payload only
    /\ event.method = "GET" => checks = <<>> /\ Count("serde_json::from_str") = 0
    /\ event.method = "POST" => Count("select_users") = 0
    \* the build needs resolved recipients
    /\ Count("ExpoPushMessage::build") > 0 =>
          \/ event.method = "GET" /\ rows_returned # None
          \/ /\ event.method = "POST" /\ FirstFailure = ""
             /\ checks = <<"title", "body", "expo_push_token">>
    \* the send needs a built message
    /\ Count("send_push_notifications") > 0 =>
          Count("ExpoPushMessage::build") = 1 /\ builder_arg # None
    \* a failed collaborator call ends the invocation
    /\ (Count("select_users") = 1 /\ rows_returned = None) => Returned
    /\ (Count("initialize_supabase_client") = 1 /\ Count("select_users") = 0
            /\ pc # "fetch") => Returned
    /\ send_error # None => Returned

C10_Step ==
    \* once the handler has returned, nothing more is called or examined
    /\ Returned => (calls' = calls /\ checks' = checks /\ result' = result)
    \* history only grows
    /\ Len(calls') >= Len(calls) /\ SubSeq(calls', 1, Len(calls)) = calls

\* C10: in every invocation the steps happen only in the order key gate,
\* recipient resolution (datastore on GET, payload checks on POST), message
\* build, push send, response; the send happens at most once and only after
\* the gate passed, recipients were resolved and the build succeeded; the
\* datastore is queried at most once; and after an early response or a
\* failed collaborator call nothing further is called.
C10_PipelineOrder == [](C10_State) /\ [][C10_Step]_vars

C10_Witness ==
    /\ calls = <<"initialize_supabase_client", "select_users",
                 "ExpoPushMessage::build", "send_push_notifications">>
    /\ send_error # None

====
